---------------------------- MODULE Spec2Model ----------------------------
(***************************************************************************)
(* BlockLens pace projection engine (src/src/utils/calculations.ts).       *)
(*                                                                         *)
(* The engine is a set of pure functions over JavaScript numbers.  The     *)
(* model computes them in exact arithmetic:                                *)
(*   - a fraction of the race is a rational [num, den];                    *)
(*   - a pace or a time is a number over a fixed denominator `den`,        *)
(*     written [w, n] for w + n/den with 0 <= n < den (two limbs, so that  *)
(*     a marathon's cumulative time fits TLC's 32-bit integers);          *)
(*   - a race distance is held in tenths of a mile (3.1 mi = 31).          *)
(* Math.pow with the Riegel exponent is tabulated to three decimals.       *)
(*                                                                         *)
(* Each action is one call of an exported function: it draws its inputs    *)
(* from bounded sets, records them in `call` and the returned value in     *)
(* `ret`.  Return takes the harness back to idle.                          *)
(***************************************************************************)
EXTENDS Integers, Sequences, FiniteSets, TLC

VARIABLES pc, call, ret, appInputs, storage, storageWritable

vars == <<pc, call, ret, appInputs, storage, storageWritable>>

\* the state of the App (appInputs: its `inputs`) and of the browser's
\* localStorage (what it holds, and whether setItem succeeds)
appVars == <<appInputs, storage, storageWritable>>

(***************************************************************************)
(* Bounds of the input sets.                                               *)
(***************************************************************************)
\* pacing adjustments and deviations are drawn from
\* {-5*MaxAdjSteps, ..., -5, 0, 5, ..., 5*MaxAdjSteps} sec/mile
MaxAdjSteps == 8
\* race fractions handed directly to calculateFadeAdjustment are
\* k/FracDen for k in 0..MaxFracNum
FracDen == 20
MaxFracNum == 30
\* time texts have 1..MaxFields colon-separated fields
MaxFields == 4
\* whole durations handed to the formatters are 0..MaxWholeSeconds seconds
\* (and a few longer ones)
MaxWholeSeconds == 3725
\* fractional durations handed to the formatters are w + n/SecondsDen
\* seconds for w in 0..MaxFractionalWhole (and a few longer ones)
SecondsDen == 10
MaxFractionalWhole == 125

(***************************************************************************)
(* constants.js                                                            *)
(***************************************************************************)
RaceKeys == {"5k", "10k", "half", "marathon"}

\* RACE_DISTANCES[key].miles, in tenths of a mile
RACE_DISTANCES ==
  [key \in RaceKeys |->
     CASE key = "5k" -> 31
       [] key = "10k" -> 62
       [] key = "half" -> 131
       [] key = "marathon" -> 262]

\* AGGRESSION_MULTIPLIER 1.5 and FADE_ONSET_FRACTION 0.5 as rationals
FADE_MODEL ==
  [AGGRESSION_MULTIPLIER |-> [num |-> 3, den |-> 2],
   FADE_ONSET_FRACTION   |-> [num |-> 1, den |-> 2],
   MAX_FADE_RATE         |-> 30]

RISK_THRESHOLDS == [LOW |-> 5, MODERATE |-> 15, HIGH |-> 25]

(***************************************************************************)
(* Exact arithmetic on numbers [w, n] = w + n/den.                         *)
(***************************************************************************)
\* the integer i
NumInt(i) == [w |-> i, n |-> 0]

\* the rational a/b (b > 0, b divides den)
NumFromRat(a, b, den) == [w |-> a \div b, n |-> (a % b) * (den \div b)]

\* x + y
NumAdd(x, y, den) ==
  IF x.n + y.n >= den
    THEN [w |-> x.w + y.w + 1, n |-> x.n + y.n - den]
    ELSE [w |-> x.w + y.w, n |-> x.n + y.n]

\* -x
NumNeg(x, den) ==
  IF x.n = 0 THEN [w |-> 0 - x.w, n |-> 0]
             ELSE [w |-> 0 - x.w - 1, n |-> den - x.n]

\* x - y
NumSub(x, y, den) == NumAdd(x, NumNeg(y, den), den)

\* x * (k/10) for a segment distance of k tenths of a mile
NumTimesTenths(x, k, den) ==
  LET wk == x.w * k
      fr == (wk % 10) * (den \div 10) + (x.n * k) \div 10
  IN  [w |-> (wk \div 10) + (fr \div den), n |-> fr % den]

\* x < y, x <= y
NumLess(x, y) == x.w < y.w \/ (x.w = y.w /\ x.n < y.n)
NumLeq(x, y) == x = y \/ NumLess(x, y)

Min(a, b) == IF a <= b THEN a ELSE b

(***************************************************************************)
(* calculateFadeAdjustment(pacingDeviation, raceFraction)                  *)
(* pacingDeviation is an integer, raceFraction the rational fn/fd; the     *)
(* result is the rational [num, den] in sec/mile.                          *)
(***************************************************************************)
\* mutant: the progress is measured from the finish, (1 - raceFraction) / (1 - onset)
FadeProgress_Remaining(fn, fd) ==
  LET o == FADE_MODEL.FADE_ONSET_FRACTION
  IN  [num |-> (fd - fn) * o.den, den |-> fd * (o.den - o.num)]

\* fadeProgress = (raceFraction - FADE_ONSET_FRACTION) / (1 - FADE_ONSET_FRACTION)
FadeProgress(fn, fd) ==
  LET o == FADE_MODEL.FADE_ONSET_FRACTION
  IN  [num |-> fn * o.den - o.num * fd, den |-> fd * (o.den - o.num)]

\* raceFraction > FADE_ONSET_FRACTION
AfterOnset(fn, fd) ==
  LET o == FADE_MODEL.FADE_ONSET_FRACTION
  IN  fn * o.den > o.num * fd

\* mutant: the fade grows with the size of the deviation, whatever its sign
calculateFadeAdjustment_AnyDeviation(pacingDeviation, fn, fd) ==
  LET m  == FADE_MODEL.AGGRESSION_MULTIPLIER
      p  == FadeProgress(fn, fd)
      dn == p.den * p.den * m.den
      size == IF pacingDeviation < 0 THEN 0 - pacingDeviation ELSE pacingDeviation
      fadeFactor == IF AfterOnset(fn, fd) THEN p.num * p.num * m.num * size ELSE 0
  IN  [num |-> Min(fadeFactor, FADE_MODEL.MAX_FADE_RATE * dn), den |-> dn]

\* mutant: the early return for pacingDeviation <= 0 is missing
calculateFadeAdjustment_NoGuard(pacingDeviation, fn, fd) ==
  LET m  == FADE_MODEL.AGGRESSION_MULTIPLIER
      p  == FadeProgress(fn, fd)
      dn == p.den * p.den * m.den
      fadeFactor == IF AfterOnset(fn, fd)
                      THEN p.num * p.num * m.num * pacingDeviation
                      ELSE 0
  IN  [num |-> Min(fadeFactor, FADE_MODEL.MAX_FADE_RATE * dn), den |-> dn]

\* mutant: the result is not clamped to MAX_FADE_RATE
calculateFadeAdjustment_NoClamp(pacingDeviation, fn, fd) ==
  LET m  == FADE_MODEL.AGGRESSION_MULTIPLIER
      p  == FadeProgress(fn, fd)
      dn == p.den * p.den * m.den
  IN  IF pacingDeviation <= 0
        THEN [num |-> 0, den |-> dn]
        ELSE [num |-> IF AfterOnset(fn, fd)
                        THEN p.num * p.num * m.num * pacingDeviation
                        ELSE 0,
              den |-> dn]

calculateFadeAdjustment(pacingDeviation, fn, fd) ==
  LET m  == FADE_MODEL.AGGRESSION_MULTIPLIER
      p  == FadeProgress(fn, fd)
      dn == p.den * p.den * m.den
      \* Math.pow(fadeProgress, 2) * AGGRESSION_MULTIPLIER * pacingDeviation, over dn
      fadeFactor == IF AfterOnset(fn, fd)
                      THEN p.num * p.num * m.num * pacingDeviation
                      ELSE 0
  IN  IF pacingDeviation <= 0
        THEN [num |-> 0, den |-> dn]
        ELSE [num |-> Min(fadeFactor, FADE_MODEL.MAX_FADE_RATE * dn), den |-> dn]

(***************************************************************************)
(* generateSplits(goalRaceKey, sustainablePace, pacingAdjustment)          *)
(* Paces and times of a schedule are numbers over TimeDen(goalRaceKey),    *)
(* which every denominator arising for that race divides: 100 * distance   *)
(* (sustainable pace), 2 * distance^2 (fade), and ten times each (the      *)
(* partial last mile).                                                     *)
(***************************************************************************)
TimeDen(goalRaceKey) ==
  1000 * RACE_DISTANCES[goalRaceKey] * RACE_DISTANCES[goalRaceKey]

\* Math.ceil(distance), Math.floor(distance) for a distance in tenths
CeilMiles(distance) == (distance + 9) \div 10
FloorMiles(distance) == distance \div 10

\* mutant: the loop runs to Math.floor(distance)
LastMile_Floor(distance) == FloorMiles(distance)

\* the loop bound: mile <= Math.ceil(distance)
LastMile(distance) == CeilMiles(distance)

\* mutant: every segment is taken to be a full mile
MileDistance_AlwaysFull(mile, distance) == 10

\* mileDistance, in tenths: isPartialMile ? distance - Math.floor(distance) : 1
MileDistance(mile, distance) ==
  LET isPartialMile == 10 * mile > distance
  IN  IF isPartialMile THEN distance - 10 * FloorMiles(distance) ELSE 10

\* mutant: the fade is taken off the start pace
ActualPace_FadeSubtracted(startPace, fadeAdjustment, den) ==
  NumSub(startPace, fadeAdjustment, den)

\* actualPace = startPace + fadeAdjustment
ActualPace(startPace, fadeAdjustment, den) == NumAdd(startPace, fadeAdjustment, den)

\* one iteration of the loop body: the split pushed for `mile`
SplitAt(goalRaceKey, sustainablePace, pacingAdjustment, mile, cumulativeTime) ==
  LET distance        == RACE_DISTANCES[goalRaceKey]
      den             == TimeDen(goalRaceKey)
      pacingDeviation == 0 - pacingAdjustment
      raceFraction    == [num |-> 10 * mile, den |-> distance]
      mileDistance    == MileDistance(mile, distance)
      startPace       == NumAdd(sustainablePace, NumInt(pacingAdjustment), den)
      fade            == calculateFadeAdjustment(pacingDeviation,
                                                 raceFraction.num, raceFraction.den)
      fadeAdjustment  == NumFromRat(fade.num, fade.den, den)
      actualPace      == ActualPace(startPace, fadeAdjustment, den)
      splitTime       == NumTimesTenths(actualPace, mileDistance, den)
  IN  [mile           |-> mile,
       distance       |-> mileDistance,
       pace           |-> actualPace,
       splitTime      |-> splitTime,
       cumulativeTime |-> NumAdd(cumulativeTime, splitTime, den),
       fadeAdjustment |-> fadeAdjustment,
       \* not a field of Split: the argument handed to calculateFadeAdjustment
       raceFraction   |-> raceFraction]

RECURSIVE SplitsLoop(_, _, _, _, _)
\* for (let mile = 1; mile <= Math.ceil(distance); mile++) { ... splits.push(...) }
SplitsLoop(goalRaceKey, sustainablePace, pacingAdjustment, mile, splits) ==
  IF mile > LastMile(RACE_DISTANCES[goalRaceKey])
    THEN splits
    ELSE LET cumulativeTime == IF splits = <<>> THEN NumInt(0)
                               ELSE splits[Len(splits)].cumulativeTime
             split == SplitAt(goalRaceKey, sustainablePace, pacingAdjustment,
                              mile, cumulativeTime)
         IN  SplitsLoop(goalRaceKey, sustainablePace, pacingAdjustment,
                        mile + 1, Append(splits, split))

generateSplits(goalRaceKey, sustainablePace, pacingAdjustment) ==
  SplitsLoop(goalRaceKey, sustainablePace, pacingAdjustment, 1, <<>>)

(***************************************************************************)
(* predictRaceTime and calculateSustainablePace                            *)
(***************************************************************************)
\* mutant: the exponent is 1, the time scales with the distance
RiegelPowMilli_Linear(targetDistance, knownDistance) ==
  (1000 * targetDistance) \div knownDistance

\* Math.pow(targetDistanceMiles / knownDistanceMiles, RIEGEL_EXPONENT) in
\* thousandths, rounded, for the ratios of the four race distances
RiegelPowMilli(targetDistance, knownDistance) ==
  CASE targetDistance = knownDistance -> 1000
    [] targetDistance = 62  /\ knownDistance = 31  -> 2085
    [] targetDistance = 131 /\ knownDistance = 31  -> 4607
    [] targetDistance = 262 /\ knownDistance = 31  -> 9606
    [] targetDistance = 31  /\ knownDistance = 62  -> 480
    [] targetDistance = 131 /\ knownDistance = 62  -> 2210
    [] targetDistance = 262 /\ knownDistance = 62  -> 4607
    [] targetDistance = 31  /\ knownDistance = 131 -> 217
    [] targetDistance = 62  /\ knownDistance = 131 -> 453
    [] targetDistance = 262 /\ knownDistance = 131 -> 2085
    [] targetDistance = 31  /\ knownDistance = 262 -> 104
    [] targetDistance = 62  /\ knownDistance = 262 -> 217
    [] targetDistance = 131 /\ knownDistance = 262 -> 480

\* predicted time in seconds, as the rational [num, den]
predictRaceTime(knownTimeSeconds, knownDistance, targetDistance) ==
  [num |-> knownTimeSeconds * RiegelPowMilli(targetDistance, knownDistance),
   den |-> 1000]

\* predictedTime / goalDistance, a number over TimeDen(goalRaceKey)
calculateSustainablePace(recentRaceKey, recentTimeSeconds, goalRaceKey) ==
  LET recentDistance == RACE_DISTANCES[recentRaceKey]
      goalDistance   == RACE_DISTANCES[goalRaceKey]
      predictedTime  == predictRaceTime(recentTimeSeconds, recentDistance, goalDistance)
  IN  NumFromRat(predictedTime.num, (predictedTime.den \div 10) * goalDistance,
                 TimeDen(goalRaceKey))

(***************************************************************************)
(* assessFadeRisk(pacingDeviation)                                         *)
(***************************************************************************)
\* mutant: a deviation exactly at a threshold falls in the higher band
assessFadeRisk_Exclusive(pacingDeviation) ==
  IF NumLeq(pacingDeviation, NumInt(0))
    THEN [level |-> "conservative", color |-> "blue",
          message |-> "Conservative start - may have time to spare"]
  ELSE IF NumLess(pacingDeviation, NumInt(RISK_THRESHOLDS.LOW))
    THEN [level |-> "low", color |-> "green",
          message |-> "Low risk - slight positive split likely"]
  ELSE IF NumLess(pacingDeviation, NumInt(RISK_THRESHOLDS.MODERATE))
    THEN [level |-> "moderate", color |-> "yellow",
          message |-> "Moderate risk - expect noticeable fade in final miles"]
  ELSE IF NumLess(pacingDeviation, NumInt(RISK_THRESHOLDS.HIGH))
    THEN [level |-> "high", color |-> "orange",
          message |-> "High risk - significant slowdown likely"]
  ELSE [level |-> "very-high", color |-> "red",
        message |-> "Very high risk - blow-up territory"]

\* mutant: a deviation up to the LOW threshold still counts as conservative
assessFadeRisk_ConservativeUpToLow(pacingDeviation) ==
  IF NumLeq(pacingDeviation, NumInt(RISK_THRESHOLDS.LOW))
    THEN [level |-> "conservative", color |-> "blue",
          message |-> "Conservative start - may have time to spare"]
  ELSE IF NumLeq(pacingDeviation, NumInt(RISK_THRESHOLDS.MODERATE))
    THEN [level |-> "moderate", color |-> "yellow",
          message |-> "Moderate risk - expect noticeable fade in final miles"]
  ELSE IF NumLeq(pacingDeviation, NumInt(RISK_THRESHOLDS.HIGH))
    THEN [level |-> "high", color |-> "orange",
          message |-> "High risk - significant slowdown likely"]
  ELSE [level |-> "very-high", color |-> "red",
        message |-> "Very high risk - blow-up territory"]

assessFadeRisk(pacingDeviation) ==
  IF NumLeq(pacingDeviation, NumInt(0))
    THEN [level |-> "conservative", color |-> "blue",
          message |-> "Conservative start - may have time to spare"]
  ELSE IF NumLeq(pacingDeviation, NumInt(RISK_THRESHOLDS.LOW))
    THEN [level |-> "low", color |-> "green",
          message |-> "Low risk - slight positive split likely"]
  ELSE IF NumLeq(pacingDeviation, NumInt(RISK_THRESHOLDS.MODERATE))
    THEN [level |-> "moderate", color |-> "yellow",
          message |-> "Moderate risk - expect noticeable fade in final miles"]
  ELSE IF NumLeq(pacingDeviation, NumInt(RISK_THRESHOLDS.HIGH))
    THEN [level |-> "high", color |-> "orange",
          message |-> "High risk - significant slowdown likely"]
  ELSE [level |-> "very-high", color |-> "red",
        message |-> "Very high risk - blow-up territory"]

(***************************************************************************)
(* calculateProjection(inputs)                                             *)
(***************************************************************************)
RECURSIVE SumSplitTime(_, _, _, _)
\* splits.reduce((sum, s) => sum + s.splitTime, 0)
SumSplitTime(splits, i, sum, den) ==
  IF i > Len(splits) THEN sum
  ELSE SumSplitTime(splits, i + 1, NumAdd(sum, splits[i].splitTime, den), den)

\* mutant: the sign convention of the schedule generator's adjustment is used
RiskDeviation_Flipped(sustainablePace, startPace, den) ==
  NumSub(startPace, sustainablePace, den)

\* pacingDeviation = sustainablePace - startPace
RiskDeviation(sustainablePace, startPace, den) ==
  NumSub(sustainablePace, startPace, den)

\* mutant: the delta is taken goal minus projection
TimeDelta_Reversed(projectedFinishTime, goalTimeSeconds, den) ==
  NumSub(NumInt(goalTimeSeconds), projectedFinishTime, den)

\* timeDelta: projectedFinishTime - goalTimeSeconds
TimeDelta(projectedFinishTime, goalTimeSeconds, den) ==
  NumSub(projectedFinishTime, NumInt(goalTimeSeconds), den)

calculateProjection(inputs) ==
  LET den             == TimeDen(inputs.goalRace)
      sustainablePace == calculateSustainablePace(inputs.recentRace,
                           inputs.recentTimeSeconds, inputs.goalRace)
      goalDistance    == RACE_DISTANCES[inputs.goalRace]
      goalPace        == NumFromRat(10 * inputs.goalTimeSeconds, goalDistance, den)
      splits          == generateSplits(inputs.goalRace, sustainablePace,
                                        inputs.pacingAdjustment)
      projectedFinishTime == SumSplitTime(splits, 1, NumInt(0), den)
      startPace       == NumAdd(sustainablePace, NumInt(inputs.pacingAdjustment), den)
      pacingDeviation == RiskDeviation(sustainablePace, startPace, den)
      fadeRisk        == assessFadeRisk(pacingDeviation)
  IN  [sustainablePace     |-> sustainablePace,
       goalPace            |-> goalPace,
       startPace           |-> startPace,
       splits              |-> splits,
       projectedFinishTime |-> projectedFinishTime,
       fadeRisk            |-> fadeRisk,
       goalDistance        |-> goalDistance,
       timeDelta           |-> TimeDelta(projectedFinishTime,
                                         inputs.goalTimeSeconds, den)]

(***************************************************************************)
(* Time codec.  A JavaScript string is a sequence of one-character         *)
(* strings; a time text handed to validateTimeString is a value            *)
(* [type, chars] so that null and undefined can be handed in as well.      *)
(***************************************************************************)
DigitChars == {"0", "1", "2", "3", "4", "5", "6", "7", "8", "9"}

DigitValue(c) ==
  CASE c = "0" -> 0 [] c = "1" -> 1 [] c = "2" -> 2 [] c = "3" -> 3
    [] c = "4" -> 4 [] c = "5" -> 5 [] c = "6" -> 6 [] c = "7" -> 7
    [] c = "8" -> 8 [] c = "9" -> 9

DigitChar(d) ==
  CASE d = 0 -> "0" [] d = 1 -> "1" [] d = 2 -> "2" [] d = 3 -> "3"
    [] d = 4 -> "4" [] d = 5 -> "5" [] d = 6 -> "6" [] d = 7 -> "7"
    [] d = 8 -> "8" [] d = 9 -> "9"

RECURSIVE TrimStart(_)
TrimStart(s) == IF s # <<>> /\ Head(s) = " " THEN TrimStart(Tail(s)) ELSE s

RECURSIVE TrimEnd(_)
TrimEnd(s) ==
  IF s # <<>> /\ s[Len(s)] = " " THEN TrimEnd(SubSeq(s, 1, Len(s) - 1)) ELSE s

\* String.prototype.trim
Trim(s) == TrimEnd(TrimStart(s))

\* /^[\d:]+$/.test(trimmed)
MatchesDigitsAndColons(s) ==
  s # <<>> /\ \A i \in DOMAIN s : s[i] \in DigitChars \cup {":"}

RECURSIVE SplitColon(_, _, _, _)
\* trimmed.split(':'): the parts found, `cur` being the part in progress
SplitColon(s, i, cur, parts) ==
  IF i > Len(s) THEN Append(parts, cur)
  ELSE IF s[i] = ":" THEN SplitColon(s, i + 1, <<>>, Append(parts, cur))
  ELSE SplitColon(s, i + 1, Append(cur, s[i]), parts)

RECURSIVE DecimalValue(_, _, _)
DecimalValue(part, i, acc) ==
  IF i > Len(part) THEN acc
  ELSE DecimalValue(part, i + 1, 10 * acc + DigitValue(part[i]))

\* Number(part): the empty string converts to 0, a string of digits to its
\* decimal value, anything else to NaN
ToNumber(part) ==
  IF part = <<>> THEN [nan |-> FALSE, val |-> 0]
  ELSE IF \A i \in DOMAIN part : part[i] \in DigitChars
    THEN [nan |-> FALSE, val |-> DecimalValue(part, 1, 0)]
  ELSE [nan |-> TRUE, val |-> 0]

Invalid(error) == [valid |-> FALSE, error |-> error]
Valid(seconds) == [valid |-> TRUE, seconds |-> seconds]

\* mutant: the zero-duration check of the two-field form is missing
ValidateTwoFields_NoZeroCheck(minutes, seconds) ==
  IF seconds >= 60 THEN Invalid("Seconds must be 0-59")
  ELSE Valid(minutes * 60 + seconds)

\* mutant: the minutes are not converted to seconds
ValidateTwoFields_MinutesAsSeconds(minutes, seconds) ==
  IF seconds >= 60 THEN Invalid("Seconds must be 0-59")
  ELSE IF minutes = 0 /\ seconds = 0 THEN Invalid("Time must be greater than 0")
  ELSE Valid(minutes + seconds)

\* if (parts.length === 2) { ... }
ValidateTwoFields(minutes, seconds) ==
  IF seconds >= 60 THEN Invalid("Seconds must be 0-59")
  ELSE IF minutes = 0 /\ seconds = 0 THEN Invalid("Time must be greater than 0")
  ELSE Valid(minutes * 60 + seconds)

\* mutant: the seconds range is checked before the minutes range
ValidateThreeFields_SecondsFirst(hours, minutes, seconds) ==
  IF seconds >= 60 THEN Invalid("Seconds must be 0-59")
  ELSE IF minutes >= 60 THEN Invalid("Minutes must be 0-59")
  ELSE IF hours = 0 /\ minutes = 0 /\ seconds = 0
    THEN Invalid("Time must be greater than 0")
  ELSE Valid(hours * 3600 + minutes * 60 + seconds)

\* mutant: the zero-duration check of the three-field form is missing
ValidateThreeFields_NoZeroCheck(hours, minutes, seconds) ==
  IF minutes >= 60 THEN Invalid("Minutes must be 0-59")
  ELSE IF seconds >= 60 THEN Invalid("Seconds must be 0-59")
  ELSE Valid(hours * 3600 + minutes * 60 + seconds)

\* mutant: the hours are converted like minutes
ValidateThreeFields_HoursAsMinutes(hours, minutes, seconds) ==
  IF minutes >= 60 THEN Invalid("Minutes must be 0-59")
  ELSE IF seconds >= 60 THEN Invalid("Seconds must be 0-59")
  ELSE IF hours = 0 /\ minutes = 0 /\ seconds = 0
    THEN Invalid("Time must be greater than 0")
  ELSE Valid(hours * 60 + minutes * 60 + seconds)

\* if (parts.length === 3) { ... }
ValidateThreeFields(hours, minutes, seconds) ==
  IF minutes >= 60 THEN Invalid("Minutes must be 0-59")
  ELSE IF seconds >= 60 THEN Invalid("Seconds must be 0-59")
  ELSE IF hours = 0 /\ minutes = 0 /\ seconds = 0
    THEN Invalid("Time must be greater than 0")
  ELSE Valid(hours * 3600 + minutes * 60 + seconds)

validateTimeString(timeStr) ==
  IF timeStr.type # "string" \/ timeStr.chars = <<>>
    THEN Invalid("Enter a time")
  ELSE LET trimmed == Trim(timeStr.chars) IN
  IF trimmed = <<>> THEN Invalid("Enter a time")
  ELSE IF ~MatchesDigitsAndColons(trimmed) THEN Invalid("Use format M:SS or H:MM:SS")
  ELSE LET parts == SplitColon(trimmed, 1, <<>>, <<>>) IN
  IF Len(parts) < 2 \/ Len(parts) > 3 THEN Invalid("Use format M:SS or H:MM:SS")
  ELSE LET nums == [i \in DOMAIN parts |-> ToNumber(parts[i])] IN
  IF \E i \in DOMAIN nums : nums[i].nan \/ nums[i].val < 0
    THEN Invalid("Invalid number in time")
  ELSE IF Len(parts) = 2 THEN ValidateTwoFields(nums[1].val, nums[2].val)
  ELSE IF Len(parts) = 3
    THEN ValidateThreeFields(nums[1].val, nums[2].val, nums[3].val)
  ELSE Invalid("Use format M:SS or H:MM:SS")

\* result.valid && result.seconds !== undefined ? result.seconds : 0
timeToSeconds(timeStr) ==
  LET result == validateTimeString(timeStr)
  IN  IF result.valid THEN result.seconds ELSE 0

RECURSIVE DigitsOf(_)
\* String(n) for a whole number n >= 0
DigitsOf(n) ==
  IF n < 10 THEN <<DigitChar(n)>>
  ELSE Append(DigitsOf(n \div 10), DigitChar(n % 10))

\* mutant: no zero padding
PadStart2_None(s) == s

\* s.padStart(2, '0')
PadStart2(s) == IF Len(s) < 2 THEN <<"0">> \o s ELSE s

\* Math.round of the number x >= 0 over den
MathRound(x, den) == IF 2 * x.n >= den THEN x.w + 1 ELSE x.w

\* mutant: the minutes are not reduced modulo the hour
secondsToTime_MinutesNotReduced(totalSeconds, den) ==
  LET hours   == totalSeconds.w \div 3600
      minutes == totalSeconds.w \div 60
      seconds == MathRound([w |-> totalSeconds.w % 60, n |-> totalSeconds.n], den)
  IN  IF hours > 0
        THEN DigitsOf(hours) \o <<":">> \o PadStart2(DigitsOf(minutes))
               \o <<":">> \o PadStart2(DigitsOf(seconds))
        ELSE DigitsOf(minutes) \o <<":">> \o PadStart2(DigitsOf(seconds))

\* secondsToTime(totalSeconds) for totalSeconds >= 0, a number over den
secondsToTime(totalSeconds, den) ==
  LET hours   == totalSeconds.w \div 3600
      minutes == (totalSeconds.w % 3600) \div 60
      seconds == MathRound([w |-> totalSeconds.w % 60, n |-> totalSeconds.n], den)
  IN  IF hours > 0
        THEN DigitsOf(hours) \o <<":">> \o PadStart2(DigitsOf(minutes))
               \o <<":">> \o PadStart2(DigitsOf(seconds))
        ELSE DigitsOf(minutes) \o <<":">> \o PadStart2(DigitsOf(seconds))

\* formatPace(secondsPerMile) for secondsPerMile >= 0, a number over den
formatPace(secondsPerMile, den) ==
  LET minutes == secondsPerMile.w \div 60
      seconds == MathRound([w |-> secondsPerMile.w % 60, n |-> secondsPerMile.n], den)
  IN  DigitsOf(minutes) \o <<":">> \o PadStart2(DigitsOf(seconds))

(***************************************************************************)
(* Unit converter: Fahrenheit and Celsius.                                 *)
(***************************************************************************)
\* Math.round(num / den) for den > 0: the nearest integer, a half rounding up
RoundDiv(num, den) == (2 * num + den) \div (2 * den)

\* mutant: Math.floor instead of Math.round
fahrenheitToCelsius_Floor(tempF) == ((tempF - 32) * 5) \div 9

\* Math.round((tempF - 32) * 5 / 9)
fahrenheitToCelsius(tempF) == RoundDiv((tempF - 32) * 5, 9)

\* Math.round(tempC * 9 / 5 + 32)
celsiusToFahrenheit(tempC) == RoundDiv(tempC * 9 + 32 * 5, 5)

(***************************************************************************)
(* The App (App.tsx, RaceInputForm.tsx, ResultsDisplay.tsx).               *)
(* The inputs object is a function from the property names it has to       *)
(* their values: strings are character sequences, numbers are integers.    *)
(* localStorage holds, under STORAGE_KEY, nothing, a text JSON.parse        *)
(* rejects, or the JSON text of an object, kept as a function from         *)
(* property names to the JSON text of each value.                          *)
(***************************************************************************)
\* the characters of the string literals of the App
Str(literal) ==
  CASE literal = "5k" -> <<"5", "k">>
    [] literal = "10k" -> <<"1", "0", "k">>
    [] literal = "half" -> <<"h", "a", "l", "f">>
    [] literal = "marathon" -> <<"m", "a", "r", "a", "t", "h", "o", "n">>
    [] literal = "miles" -> <<"m", "i", "l", "e", "s">>
    [] literal = "km" -> <<"k", "m">>
    [] literal = "low" -> <<"l", "o", "w">>
    [] literal = "moderate" -> <<"m", "o", "d", "e", "r", "a", "t", "e">>
    [] literal = "high" -> <<"h", "i", "g", "h">>
    [] literal = "3:30:00" -> <<"3", ":", "3", "0", ":", "0", "0">>
    [] literal = "4:00:00" -> <<"4", ":", "0", "0", ":", "0", "0">>
    [] literal = "1:40:00" -> <<"1", ":", "4", "0", ":", "0", "0">>
    [] literal = "20:00" -> <<"2", "0", ":", "0", "0">>
    [] literal = "0:00" -> <<"0", ":", "0", "0">>
    [] literal = "abc" -> <<"a", "b", "c">>
    [] literal = "" -> <<>>

\* the race key a string of the inputs names
RaceKeyOf(chars) == CHOOSE key \in RaceKeys : Str(key) = chars

DEFAULT_INPUTS ==
  [goalRace         |-> Str("marathon"),
   goalTime         |-> Str("3:30:00"),
   recentRace       |-> Str("half"),
   recentTime       |-> Str("1:40:00"),
   pacingAdjustment |-> 0,
   compareMode      |-> FALSE,
   unitPreference   |-> Str("miles")]

COMPARE_OFFSET == 10

\* typeof value, for the properties of AppInputs
TypeOf(key) ==
  CASE key \in {"goalRace", "goalTime", "recentRace", "recentTime",
                "unitPreference", "humidity"} -> "string"
    [] key \in {"pacingAdjustment", "temperature"} -> "number"
    [] key \in {"compareMode", "weatherEnabled"} -> "boolean"

\* JSON.stringify of one value: a quoted string, a decimal number, true/false
JsonStringifyValue(type, value) ==
  CASE type = "string" -> <<"\"">> \o value \o <<"\"">>
    [] type = "number" ->
         IF value < 0 THEN <<"-">> \o DigitsOf(0 - value) ELSE DigitsOf(value)
    [] type = "boolean" ->
         IF value THEN <<"t", "r", "u", "e">> ELSE <<"f", "a", "l", "s", "e">>

\* JSON.parse of one value, by the first character of its text
JsonParseValue(text) ==
  CASE text[1] = "\"" -> SubSeq(text, 2, Len(text) - 1)
    [] text[1] = "t" -> TRUE
    [] text[1] = "f" -> FALSE
    [] text[1] = "-" -> 0 - DecimalValue(Tail(text), 1, 0)
    [] OTHER -> DecimalValue(text, 1, 0)

\* JSON.stringify(inputs)
JsonStringify(object) ==
  [key \in DOMAIN object |-> JsonStringifyValue(TypeOf(key), object[key])]

\* JSON.parse(saved)
JsonParse(json) == [key \in DOMAIN json |-> JsonParseValue(json[key])]

\* what localStorage holds under STORAGE_KEY
NoItem == [kind |-> "absent", json |-> <<>>]
UnreadableItem == [kind |-> "unreadable", json |-> <<>>]
Item(json) == [kind |-> "item", json |-> json]

\* mutant: the defaults are spread over the saved record
SpreadOver_DefaultsWin(defaults, parsed) ==
  [key \in DOMAIN defaults \cup DOMAIN parsed |->
     IF key \in DOMAIN defaults THEN defaults[key] ELSE parsed[key]]

\* { ...defaults, ...parsed }
SpreadOver(defaults, parsed) ==
  [key \in DOMAIN defaults \cup DOMAIN parsed |->
     IF key \in DOMAIN parsed THEN parsed[key] ELSE defaults[key]]

\* loadSavedInputs(): getItem gives null or JSON.parse throws -> the defaults
loadSavedInputs(stored) ==
  IF stored.kind = "item"
    THEN SpreadOver(DEFAULT_INPUTS, JsonParse(stored.json))
    ELSE DEFAULT_INPUTS

\* the save effect: localStorage.setItem(STORAGE_KEY, JSON.stringify(inputs)),
\* an exception of setItem being ignored
SaveEffect(stored, canWrite, newInputs) ==
  IF canWrite THEN Item(JsonStringify(newInputs)) ELSE stored

\* mutant: only the goal time is required
MissingTime_GoalOnly(goalTimeSeconds, recentTimeSeconds) == goalTimeSeconds = 0

\* !goalTimeSeconds || !recentTimeSeconds
MissingTime(goalTimeSeconds, recentTimeSeconds) ==
  goalTimeSeconds = 0 \/ recentTimeSeconds = 0

\* mutant: both scenarios are offset the same way
AggressiveAdjustment_Slower(pacingAdjustment) == pacingAdjustment + COMPARE_OFFSET

\* inputs.pacingAdjustment - COMPARE_OFFSET
AggressiveAdjustment(pacingAdjustment) == pacingAdjustment - COMPARE_OFFSET

\* inputs.pacingAdjustment + COMPARE_OFFSET
ConservativeAdjustment(pacingAdjustment) == pacingAdjustment + COMPARE_OFFSET

\* mutant: in km mode the slider value is taken as sec/km and converted
MainAdjustment_PerKm(values) ==
  IF values["unitPreference"] = Str("km")
    THEN RoundDiv(values["pacingAdjustment"] * 1609, 1000)
    ELSE values["pacingAdjustment"]

\* pacingAdjustment: inputs.pacingAdjustment
MainAdjustment(values) == values["pacingAdjustment"]

NoProjections == [isNull |-> TRUE]

\* the useMemo of App: the calls of calculateProjection it makes, in order,
\* and the value it returns
useMemoProjections(values) ==
  LET goalTimeSeconds   == timeToSeconds([type |-> "string",
                                          chars |-> values["goalTime"]])
      recentTimeSeconds == timeToSeconds([type |-> "string",
                                          chars |-> values["recentTime"]])
      Params(pacingAdjustment) ==
        [goalRace          |-> RaceKeyOf(values["goalRace"]),
         goalTimeSeconds   |-> goalTimeSeconds,
         recentRace        |-> RaceKeyOf(values["recentRace"]),
         recentTimeSeconds |-> recentTimeSeconds,
         pacingAdjustment  |-> pacingAdjustment]
      mainParams == Params(MainAdjustment(values))
      aggressiveParams ==
        Params(AggressiveAdjustment(values["pacingAdjustment"]))
      conservativeParams ==
        Params(ConservativeAdjustment(values["pacingAdjustment"]))
  IN  IF MissingTime(goalTimeSeconds, recentTimeSeconds)
        THEN [calls |-> <<>>, value |-> NoProjections]
      ELSE IF ~values["compareMode"]
        THEN [calls |-> <<mainParams>>,
              value |-> [isNull |-> FALSE,
                         main |-> calculateProjection(mainParams),
                         comparisons |-> NoProjections]]
      ELSE [calls |-> <<mainParams, aggressiveParams, conservativeParams>>,
            value |-> [isNull |-> FALSE,
                       main |-> calculateProjection(mainParams),
                       comparisons |->
                         [isNull |-> FALSE,
                          aggressive |-> calculateProjection(aggressiveParams),
                          conservative |-> calculateProjection(conservativeParams)]]]

\* ResultsDisplay: the placeholder when projection is null, else the results
ResultsDisplay(projection) ==
  IF projection.isNull THEN "Enter valid race times to see projections."
  ELSE "results"

\* handleChange(field)(value): { ...inputs, [field]: value }
handleChange(values, field, value) ==
  [key \in DOMAIN values \cup {field} |->
     IF key = field THEN value ELSE values[key]]

(***************************************************************************)
(* The harness.                                                            *)
(***************************************************************************)
AdjValues == {5 * k : k \in (0 - MaxAdjSteps)..MaxAdjSteps}

NoCall == [fn |-> "none"]

Init ==
  /\ pc = "idle"
  /\ call = NoCall
  /\ ret = NoCall
  /\ appInputs = DEFAULT_INPUTS
  /\ storage = NoItem
  /\ storageWritable = TRUE

CallCalculateFadeAdjustment ==
  /\ pc = "idle"
  /\ \E d \in AdjValues, fn \in 0..MaxFracNum :
       /\ call' = [fn |-> "calculateFadeAdjustment",
                   pacingDeviation |-> d,
                   raceFraction |-> [num |-> fn, den |-> FracDen]]
       /\ ret' = calculateFadeAdjustment(d, fn, FracDen)
  /\ pc' = "done"
  /\ UNCHANGED appVars

\* sustainable paces handed directly to generateSplits, in sec/mile
PaceSamples == {10, 25, 480, 500}

CallGenerateSplits ==
  /\ pc = "idle"
  /\ \E goalRaceKey \in RaceKeys, pace \in PaceSamples, a \in AdjValues :
       /\ call' = [fn |-> "generateSplits",
                   goalRaceKey |-> goalRaceKey,
                   sustainablePace |-> NumInt(pace),
                   pacingAdjustment |-> a]
       /\ ret' = generateSplits(goalRaceKey, NumInt(pace), a)
  /\ pc' = "done"
  /\ UNCHANGED appVars

\* deviations handed directly to assessFadeRisk: the integers and the
\* half-integers between them, as numbers over 2
DeviationSamples ==
  {[w |-> w, n |-> n] : w \in (0 - 5 * MaxAdjSteps)..(5 * MaxAdjSteps), n \in {0, 1}}

CallAssessFadeRisk ==
  /\ pc = "idle"
  /\ \E d \in DeviationSamples :
       /\ call' = [fn |-> "assessFadeRisk", pacingDeviation |-> d]
       /\ ret' = assessFadeRisk(d)
  /\ pc' = "done"
  /\ UNCHANGED appVars

\* finish times in seconds: 0:30, 20:00, 25:00, 1:40:00, 3:30:00
RecentTimeSamples == {30, 1200, 6000}
GoalTimeSamples == {1500, 12600}

ProjectionInputs ==
  [goalRace : RaceKeys, goalTimeSeconds : GoalTimeSamples,
   recentRace : RaceKeys, recentTimeSeconds : RecentTimeSamples,
   pacingAdjustment : AdjValues]

CallCalculateProjection ==
  /\ pc = "idle"
  /\ \E inputs \in ProjectionInputs :
       /\ call' = [fn |-> "calculateProjection", inputs |-> inputs]
       /\ ret' = calculateProjection(inputs)
  /\ pc' = "done"
  /\ UNCHANGED appVars

\* the fields time texts are built from
FieldSamples ==
  {<<>>, <<"0">>, <<"0", "0">>, <<"5">>, <<"0", "5">>, <<"3", "0">>,
   <<"5", "9">>, <<"6", "0">>, <<"7", "5">>}

RECURSIVE JoinColon(_, _)
\* the first i fields joined by ':'
JoinColon(fields, i) ==
  IF i = 0 THEN <<>>
  ELSE IF i = 1 THEN fields[1]
  ELSE JoinColon(fields, i - 1) \o <<":">> \o fields[i]

\* what a text is wrapped in: nothing, surrounding blanks, a trailing
\* letter, a leading minus sign
Decorations == {"plain", "padded", "letter", "negative"}

Decorate(chars, decoration) ==
  CASE decoration = "plain" -> chars
    [] decoration = "padded" -> <<" ">> \o chars \o <<" ">>
    [] decoration = "letter" -> chars \o <<"a">>
    [] decoration = "negative" -> <<"-">> \o chars

\* the time texts of at most maxFields fields, each with the fields and the
\* decoration it was built from
TimeTexts(maxFields) ==
  {[timeStr    |-> [type |-> "string",
                    chars |-> Decorate(JoinColon(fields, Len(fields)), decoration)],
    fields     |-> fields,
    decoration |-> decoration] :
      fields \in UNION {[1..k -> FieldSamples] : k \in 1..maxFields},
      decoration \in Decorations}

\* null and undefined
NonStrings ==
  {[timeStr |-> [type |-> t], fields |-> <<>>, decoration |-> "plain"] :
     t \in {"null", "undefined"}}

\* decorated texts have at most MaxFields - 1 fields
TimeInputs ==
  {x \in TimeTexts(MaxFields) :
     x.decoration = "plain" \/ Len(x.fields) < MaxFields} \cup NonStrings

CallValidateTimeString ==
  /\ pc = "idle"
  /\ \E x \in TimeInputs :
       /\ call' = [fn |-> "validateTimeString", timeStr |-> x.timeStr,
                   fields |-> x.fields, decoration |-> x.decoration]
       /\ ret' = validateTimeString(x.timeStr)
  /\ pc' = "done"
  /\ UNCHANGED appVars

CallTimeToSeconds ==
  /\ pc = "idle"
  /\ \E x \in TimeTexts(MaxFields - 1) \cup NonStrings :
       /\ call' = [fn |-> "timeToSeconds", timeStr |-> x.timeStr,
                   fields |-> x.fields, decoration |-> x.decoration]
       /\ ret' = timeToSeconds(x.timeStr)
  /\ pc' = "done"
  /\ UNCHANGED appVars

\* whole durations in seconds
WholeSecondsSamples ==
  0..MaxWholeSeconds \cup {5400, 7199, 7200, 13530, 35999, 36000}

\* durations with a fraction of a second, as numbers over SecondsDen
FractionalSecondsSamples ==
  {[w |-> w, n |-> n] :
     w \in 0..MaxFractionalWhole \cup {3599, 3600, 7199},
     n \in 1..(SecondsDen - 1)}

\* the durations handed to secondsToTime, each with its denominator
DurationSamples ==
  {[x |-> NumInt(s), den |-> 1] : s \in WholeSecondsSamples}
    \cup {[x |-> x, den |-> SecondsDen] : x \in FractionalSecondsSamples}

\* the paces handed to formatPace, each with its denominator
PaceDurationSamples ==
  {[x |-> NumInt(s), den |-> 1] : s \in 0..MaxWholeSeconds}
    \cup {[x |-> x, den |-> SecondsDen] : x \in FractionalSecondsSamples}

CallSecondsToTime ==
  /\ pc = "idle"
  /\ \E d \in DurationSamples :
       /\ call' = [fn |-> "secondsToTime", totalSeconds |-> d.x, den |-> d.den]
       /\ ret' = secondsToTime(d.x, d.den)
  /\ pc' = "done"
  /\ UNCHANGED appVars

CallFormatPace ==
  /\ pc = "idle"
  /\ \E d \in PaceDurationSamples :
       /\ call' = [fn |-> "formatPace", secondsPerMile |-> d.x, den |-> d.den]
       /\ ret' = formatPace(d.x, d.den)
  /\ pc' = "done"
  /\ UNCHANGED appVars

\* the temperature slider: 40..95 in Fahrenheit, 5..35 in Celsius
FahrenheitSlider == 40..95
CelsiusSlider == 5..35

CallFahrenheitToCelsius ==
  /\ pc = "idle"
  /\ \E tempF \in FahrenheitSlider :
       /\ call' = [fn |-> "fahrenheitToCelsius", tempF |-> tempF]
       /\ ret' = fahrenheitToCelsius(tempF)
  /\ pc' = "done"
  /\ UNCHANGED appVars

CallCelsiusToFahrenheit ==
  /\ pc = "idle"
  /\ \E tempC \in CelsiusSlider :
       /\ call' = [fn |-> "celsiusToFahrenheit", tempC |-> tempC]
       /\ ret' = celsiusToFahrenheit(tempC)
  /\ pc' = "done"
  /\ UNCHANGED appVars

\* known finish times in seconds: 0:30, 20:00, 25:00, 1:30:00, 1:40:00
KnownTimeSamples == RecentTimeSamples \cup {1500, 5400}

CallPredictRaceTime ==
  /\ pc = "idle"
  /\ \E t \in KnownTimeSamples, known \in RaceKeys, target \in RaceKeys :
       /\ call' = [fn |-> "predictRaceTime", knownTimeSeconds |-> t,
                   knownDistance |-> RACE_DISTANCES[known],
                   targetDistance |-> RACE_DISTANCES[target]]
       /\ ret' = predictRaceTime(t, RACE_DISTANCES[known], RACE_DISTANCES[target])
  /\ pc' = "done"
  /\ UNCHANGED appVars

CallCalculateSustainablePace ==
  /\ pc = "idle"
  /\ \E t \in KnownTimeSamples, recent \in RaceKeys, goal \in RaceKeys :
       /\ call' = [fn |-> "calculateSustainablePace", recentRaceKey |-> recent,
                   recentTimeSeconds |-> t, goalRaceKey |-> goal]
       /\ ret' = calculateSustainablePace(recent, t, goal)
  /\ pc' = "done"
  /\ UNCHANGED appVars

Return ==
  /\ pc = "done"
  /\ pc' = "idle"
  /\ call' = NoCall
  /\ ret' = NoCall
  /\ UNCHANGED appVars

Next ==
  \/ CallCalculateFadeAdjustment
  \/ CallGenerateSplits
  \/ CallAssessFadeRisk
  \/ CallCalculateProjection
  \/ CallValidateTimeString
  \/ CallTimeToSeconds
  \/ CallSecondsToTime
  \/ CallFormatPace
  \/ CallFahrenheitToCelsius
  \/ CallCelsiusToFahrenheit
  \/ CallPredictRaceTime
  \/ CallCalculateSustainablePace
  \/ Return

Spec == Init /\ [][Next]_vars

(***************************************************************************)
(* The App as a state machine: the page is loaded, the controls of the     *)
(* form are changed, the page is reloaded.  Each step is a whole handler:  *)
(* setInputs, the render with its useMemo, and the save effect.  pc tells  *)
(* whether the last step was a load or a change.                           *)
(***************************************************************************)
\* a record an earlier session left in localStorage, without the newer fields
OlderRecord == [goalTime |-> Str("4:00:00"), pacingAdjustment |-> 0 - 30]

\* what localStorage may hold when the page is first loaded
InitialItems == {NoItem, UnreadableItem, Item(JsonStringify(OlderRecord))}

AppInit ==
  /\ pc = "loaded"
  /\ call = NoCall
  /\ ret = NoCall
  /\ \E stored \in InitialItems, canWrite \in BOOLEAN :
       /\ storageWritable = canWrite
       /\ appInputs = loadSavedInputs(stored)
       /\ storage = SaveEffect(stored, canWrite, loadSavedInputs(stored))

\* the page is open
IsApp == pc \in {"loaded", "edited"}

\* onInputChange(handleChange(field)(value)), then the save effect
SetInputs(field, value) ==
  /\ appInputs' = handleChange(appInputs, field, value)
  /\ storage' = SaveEffect(storage, storageWritable,
                           handleChange(appInputs, field, value))
  /\ pc' = "edited"
  /\ UNCHANGED <<call, ret, storageWritable>>

\* the values the controls are set to
GoalRaceSamples == {Str("marathon"), Str("5k")}
RecentRaceSamples == {Str("half"), Str("10k")}
GoalTimeTexts == {Str("3:30:00"), Str("4:00:00"), Str("abc")}
RecentTimeTexts == {Str("1:40:00"), Str("0:00"), Str("")}
SliderSamples == {0 - 30, 0, 30}
HumiditySamples == {Str("high")}

\* the temperature slider is rendered when weatherEnabled is set
HasWeatherInputs ==
  "weatherEnabled" \in DOMAIN appInputs /\ appInputs["weatherEnabled"]

\* the positions the temperature slider is moved to, in the displayed unit
TemperatureSamples ==
  IF appInputs["unitPreference"] = Str("km") THEN {29} ELSE {85}

ChangeUnitPreference ==
  /\ IsApp
  /\ \E value \in {Str("miles"), Str("km")} : SetInputs("unitPreference", value)

ChangeGoalRace ==
  /\ IsApp
  /\ \E value \in GoalRaceSamples : SetInputs("goalRace", value)

ChangeGoalTime ==
  /\ IsApp
  /\ \E value \in GoalTimeTexts : SetInputs("goalTime", value)

ChangeRecentRace ==
  /\ IsApp
  /\ \E value \in RecentRaceSamples : SetInputs("recentRace", value)

ChangeRecentTime ==
  /\ IsApp
  /\ \E value \in RecentTimeTexts : SetInputs("recentTime", value)

ChangePacingAdjustment ==
  /\ IsApp
  /\ \E value \in SliderSamples : SetInputs("pacingAdjustment", value)

ChangeCompareMode ==
  /\ IsApp
  /\ \E value \in BOOLEAN : SetInputs("compareMode", value)

ChangeWeatherEnabled ==
  /\ IsApp
  /\ \E value \in BOOLEAN : SetInputs("weatherEnabled", value)

ChangeTemperature ==
  /\ IsApp
  /\ HasWeatherInputs
  /\ \E value \in TemperatureSamples :
       SetInputs("temperature",
                 IF appInputs["unitPreference"] = Str("km")
                   THEN celsiusToFahrenheit(value) ELSE value)

ChangeHumidity ==
  /\ IsApp
  /\ HasWeatherInputs
  /\ \E value \in HumiditySamples : SetInputs("humidity", value)

\* page.reload(): useState(loadSavedInputs), then the save effect of the mount
Reload ==
  /\ IsApp
  /\ appInputs' = loadSavedInputs(storage)
  /\ storage' = SaveEffect(storage, storageWritable, loadSavedInputs(storage))
  /\ pc' = "loaded"
  /\ UNCHANGED <<call, ret, storageWritable>>

AppNext ==
  \/ ChangeUnitPreference
  \/ ChangeGoalRace
  \/ ChangeGoalTime
  \/ ChangeRecentRace
  \/ ChangeRecentTime
  \/ ChangePacingAdjustment
  \/ ChangeCompareMode
  \/ ChangeWeatherEnabled
  \/ ChangeTemperature
  \/ ChangeHumidity
  \/ Reload

AppSpec == AppInit /\ [][AppNext]_vars

\* the App's projections, and the projection handed to ResultsDisplay
\* (projections?.main ?? null)
Projections == useMemoProjections(appInputs)
Shown(projections) ==
  IF projections.value.isNull THEN NoProjections
  ELSE [isNull |-> FALSE, projection |-> projections.value.main]

(***************************************************************************)
(* Observations on the state.                                              *)
(***************************************************************************)
IsFadeCall == pc = "done" /\ call.fn = "calculateFadeAdjustment"
IsSplitsCall == pc = "done" /\ call.fn = "generateSplits"
IsRiskCall == pc = "done" /\ call.fn = "assessFadeRisk"
IsProjectionCall == pc = "done" /\ call.fn = "calculateProjection"
IsValidateCall == pc = "done" /\ call.fn = "validateTimeString"
IsTimeToSecondsCall == pc = "done" /\ call.fn = "timeToSeconds"
IsSecondsToTimeCall == pc = "done" /\ call.fn = "secondsToTime"
IsFormatPaceCall == pc = "done" /\ call.fn = "formatPace"
IsFahrenheitToCelsiusCall == pc = "done" /\ call.fn = "fahrenheitToCelsius"
IsCelsiusToFahrenheitCall == pc = "done" /\ call.fn = "celsiusToFahrenheit"
IsPredictCall == pc = "done" /\ call.fn = "predictRaceTime"
IsSustainableCall == pc = "done" /\ call.fn = "calculateSustainablePace"

\* a schedule is returned by generateSplits, directly or inside a projection
HasSchedule == IsSplitsCall \/ IsProjectionCall
Schedule == IF IsSplitsCall THEN ret ELSE ret.splits
ScheduleRace == IF IsSplitsCall THEN call.goalRaceKey ELSE call.inputs.goalRace
ScheduleAdjustment ==
  IF IsSplitsCall THEN call.pacingAdjustment ELSE call.inputs.pacingAdjustment
ScheduleDistance == RACE_DISTANCES[ScheduleRace]

(***************************************************************************)
(* Claims.                                                                 *)
(***************************************************************************)

\* C1: calculateFadeAdjustment returns exactly 0 whenever the deviation is
\* <= 0 and whenever the race fraction is <= 0.5; so in every schedule each
\* segment whose ordinal is at most half the race distance has
\* fadeAdjustment 0.
C1_NoFadeBeforeOnset ==
  /\ IsFadeCall =>
       (   \/ call.pacingDeviation <= 0
           \/ 2 * call.raceFraction.num <= call.raceFraction.den
        => ret.num = 0)
  /\ HasSchedule =>
       \A i \in DOMAIN Schedule :
         20 * Schedule[i].mile <= ScheduleDistance
           => Schedule[i].fadeAdjustment = [w |-> 0, n |-> 0]

\* an aggressive deviation at exactly half the race, returning 0
C1_Witness ==
  /\ IsFadeCall
  /\ call.pacingDeviation = 15
  /\ 2 * call.raceFraction.num = call.raceFraction.den
  /\ ret.num = 0

\* C2: for every deviation d > 0 and race fraction f > 0.5 the result is
\* min(((f - 0.5) / 0.5)^2 * 1.5 * d, 30).  With f = fn/fd the penalty is
\* 3 * d * (2*fn - fd)^2 / (2 * fd^2).
C2_QuadraticClamped ==
  IsFadeCall =>
    LET d  == call.pacingDeviation
        fn == call.raceFraction.num
        fd == call.raceFraction.den
    IN  d > 0 /\ 2 * fn > fd =>
          ret.num * (2 * fd * fd)
            = ret.den * Min(3 * d * (2 * fn - fd) * (2 * fn - fd), 30 * (2 * fd * fd))

\* d = 15 at f = 0.8 gives 0.6^2 * 1.5 * 15 = 8.1 sec/mile
C2_Witness ==
  /\ IsFadeCall
  /\ call.pacingDeviation = 15
  /\ 5 * call.raceFraction.num = 4 * call.raceFraction.den
  /\ 10 * ret.num = 81 * ret.den

\* C3: every call generateSplits makes to calculateFadeAdjustment passes a
\* race fraction within [0,1], so the rescaled fade progress used for a
\* segment is within [0,1].
C3_FractionInUnitInterval ==
  HasSchedule =>
    \A i \in DOMAIN Schedule :
      LET f == Schedule[i].raceFraction
          p == FadeProgress(f.num, f.den)
      IN  /\ 0 <= f.num /\ f.num <= f.den
          /\ AfterOnset(f.num, f.den) => (0 <= p.num /\ p.num <= p.den)

RECURSIVE FadeTimeAdded(_, _, _)
\* sum over the first i segments of fadeAdjustment * segment distance
FadeTimeAdded(splits, i, den) ==
  IF i = 0 THEN [w |-> 0, n |-> 0]
  ELSE NumAdd(FadeTimeAdded(splits, i - 1, den),
              NumTimesTenths(splits[i].fadeAdjustment, splits[i].distance, den),
              den)

\* C4: for every pacing adjustment a < 0 the fade time added over the
\* schedule exceeds the time gained by the faster start (-a * race
\* distance), so projectedFinishTime is greater than with pacingAdjustment
\* = 0 and the same other inputs.
C4_FadeCostsMoreThanSaved ==
  IsProjectionCall /\ call.inputs.pacingAdjustment < 0 =>
    LET den    == TimeDen(call.inputs.goalRace)
        gained == NumTimesTenths([w |-> 0 - call.inputs.pacingAdjustment, n |-> 0],
                                 RACE_DISTANCES[call.inputs.goalRace], den)
        even   == calculateProjection([call.inputs EXCEPT !.pacingAdjustment = 0])
    IN  /\ NumLess(gained, FadeTimeAdded(ret.splits, Len(ret.splits), den))
        /\ NumLess(even.projectedFinishTime, ret.projectedFinishTime)

\* C5: calculateProjection classifies risk on -pacingAdjustment, the
\* deviation generateSplits uses for fade: pacingAdjustment >= 0 gives
\* 'conservative' and pacingAdjustment = -20 a level in {moderate, high,
\* very-high}.
C5_RiskOnScheduleDeviation ==
  IsProjectionCall =>
    LET a == call.inputs.pacingAdjustment
    IN  /\ ret.fadeRisk = assessFadeRisk([w |-> 0 - a, n |-> 0])
        /\ a >= 0 => ret.fadeRisk.level = "conservative"
        /\ a = 0 - 20 => ret.fadeRisk.level \in {"moderate", "high", "very-high"}

\* the aggressive start of the unit test: 20 sec/mile fast is high risk
C5_Witness ==
  /\ IsProjectionCall
  /\ call.inputs.pacingAdjustment = 0 - 20
  /\ ret.fadeRisk.level = "high"
  /\ \E i \in DOMAIN ret.splits : ret.splits[i].fadeAdjustment # [w |-> 0, n |-> 0]

\* C6: assessFadeRisk maps every deviation to one level by the bands
\* <=0 conservative, (0,5] low, (5,15] moderate, (15,25] high, >25
\* very-high, a value exactly at a threshold falling in the lower band, and
\* each level carries its one message.
C6_RiskBands ==
  IsRiskCall =>
    LET d == call.pacingDeviation
        AtMost(t) == d.w < t \/ (d.w = t /\ d.n = 0)
    IN  /\ ret.level =
             (CASE AtMost(0) -> "conservative"
                [] ~AtMost(0) /\ AtMost(5) -> "low"
                [] ~AtMost(5) /\ AtMost(15) -> "moderate"
                [] ~AtMost(15) /\ AtMost(25) -> "high"
                [] ~AtMost(25) -> "very-high")
        /\ ret.message =
             (CASE ret.level = "conservative"
                     -> "Conservative start - may have time to spare"
                [] ret.level = "low"
                     -> "Low risk - slight positive split likely"
                [] ret.level = "moderate"
                     -> "Moderate risk - expect noticeable fade in final miles"
                [] ret.level = "high"
                     -> "High risk - significant slowdown likely"
                [] ret.level = "very-high"
                     -> "Very high risk - blow-up territory")

\* a deviation exactly at the MODERATE threshold is classified moderate
C6_Witness ==
  /\ IsRiskCall
  /\ call.pacingDeviation = [w |-> 15, n |-> 0]
  /\ ret.level = "moderate"

\* C7: generateSplits returns exactly ceil(race distance) segments (4 for
\* 5k, 7 for 10k, 14 for half, 27 for marathon) with ordinals 1, 2, ..., n
\* in that order.
C7_SegmentCount ==
  HasSchedule =>
    /\ 10 * Len(Schedule) >= ScheduleDistance
    /\ 10 * (Len(Schedule) - 1) < ScheduleDistance
    /\ Len(Schedule) = (CASE ScheduleRace = "5k" -> 4
                          [] ScheduleRace = "10k" -> 7
                          [] ScheduleRace = "half" -> 14
                          [] ScheduleRace = "marathon" -> 27)
    /\ \A i \in DOMAIN Schedule : Schedule[i].mile = i

\* a marathon schedule of 27 segments
C7_Witness ==
  /\ IsSplitsCall
  /\ call.goalRaceKey = "marathon"
  /\ Len(ret) = 27
  /\ ret[27].mile = 27

\* C8: in every schedule, for every goal race, sustainable pace and pacing
\* adjustment, cumulativeTime at each segment is strictly greater than at
\* the previous segment.
C8_CumulativeTimeIncreasing ==
  HasSchedule =>
    \A i \in DOMAIN Schedule :
      i > 1 => NumLess(Schedule[i - 1].cumulativeTime, Schedule[i].cumulativeTime)

RECURSIVE SumDistance(_, _)
\* the distances of the first i segments, in tenths of a mile
SumDistance(splits, i) ==
  IF i = 0 THEN 0 ELSE SumDistance(splits, i - 1) + splits[i].distance

\* C9: each segment except the last covers exactly 1 mile and the last
\* covers distance - floor(distance), so the segment distances add up to
\* the goal race's distance.
C9_SegmentDistances ==
  HasSchedule =>
    LET n == Len(Schedule)
    IN  /\ \A i \in 1..(n - 1) : Schedule[i].distance = 10
        /\ Schedule[n].distance = ScheduleDistance - 10 * (ScheduleDistance \div 10)
        /\ SumDistance(Schedule, n) = ScheduleDistance

\* a 5K schedule: three full miles and a last segment of 0.1 mile
C9_Witness ==
  /\ IsSplitsCall
  /\ call.goalRaceKey = "5k"
  /\ Len(ret) = 4
  /\ ret[3].distance = 10
  /\ ret[4].distance = 1

RECURSIVE SplitTimeTotal(_, _, _)
\* the split times of the first i segments, added from the last one back
SplitTimeTotal(splits, i, den) ==
  IF i = 0 THEN [w |-> 0, n |-> 0]
  ELSE NumAdd(splits[i].splitTime, SplitTimeTotal(splits, i - 1, den), den)

\* C10: projectedFinishTime equals the sum of the segments' splitTime,
\* which equals the last segment's cumulativeTime, and timeDelta equals
\* projectedFinishTime - goalTimeSeconds (positive when the projection is
\* slower than the goal).
C10_FinishTimeAndDelta ==
  IsProjectionCall =>
    LET den  == TimeDen(call.inputs.goalRace)
        goal == [w |-> call.inputs.goalTimeSeconds, n |-> 0]
        n    == Len(ret.splits)
    IN  /\ ret.projectedFinishTime = SplitTimeTotal(ret.splits, n, den)
        /\ ret.projectedFinishTime = ret.splits[n].cumulativeTime
        /\ NumAdd(ret.timeDelta, goal, den) = ret.projectedFinishTime
        /\ NumLess([w |-> 0, n |-> 0], ret.timeDelta)
             <=> NumLess(goal, ret.projectedFinishTime)

\* a projection slower than its goal time, with a positive timeDelta
C10_Witness ==
  /\ IsProjectionCall
  /\ Len(ret.splits) > 0
  /\ NumLess([w |-> call.inputs.goalTimeSeconds, n |-> 0], ret.projectedFinishTime)
  /\ ret.timeDelta.w > 0


(***************************************************************************)
(* Claims about the time codec.                                            *)
(***************************************************************************)

\* the number a field of the inputs is read as, written out by hand
FieldValue(field) ==
  CASE field = <<>> -> 0
    [] field = <<"0">> -> 0
    [] field = <<"0", "0">> -> 0
    [] field = <<"5">> -> 5
    [] field = <<"0", "5">> -> 5
    [] field = <<"3", "0">> -> 30
    [] field = <<"5", "9">> -> 59
    [] field = <<"6", "0">> -> 60
    [] field = <<"7", "5">> -> 75

\* the text of the call is its fields joined by ':', possibly between blanks,
\* and every field has at least one digit
IsDigitFieldsInput ==
  /\ call.decoration \in {"plain", "padded"}
  /\ call.timeStr.type = "string"
  /\ \A i \in 1..Len(call.fields) : call.fields[i] # <<>>

\* C11: an accepted two-field input M:SS yields M*60 + SS seconds and an
\* accepted three-field input H:MM:SS yields H*3600 + MM*60 + SS seconds
C11_SecondsOfAcceptedInput ==
  (IsValidateCall /\ IsDigitFieldsInput /\ ret.valid) =>
    LET f == call.fields
    IN  /\ Len(f) \in {2, 3}
        /\ Len(f) = 2 =>
             ret.seconds = FieldValue(f[1]) * 60 + FieldValue(f[2])
        /\ Len(f) = 3 =>
             ret.seconds = FieldValue(f[1]) * 3600 + FieldValue(f[2]) * 60
                           + FieldValue(f[3])

\* "5:30:05" is accepted as 19805 seconds
C11_Witness ==
  /\ IsValidateCall
  /\ call.timeStr = [type |-> "string",
                     chars |-> <<"5", ":", "3", "0", ":", "0", "5">>]
  /\ ret = [valid |-> TRUE, seconds |-> 19805]

\* the six rejection messages of validateTimeString
RejectionMessages ==
  {"Enter a time", "Use format M:SS or H:MM:SS", "Invalid number in time",
   "Seconds must be 0-59", "Minutes must be 0-59", "Time must be greater than 0"}

\* C12: each of the six rejection messages is returned for some input, with
\* valid false and no seconds
C12_EachRejectionReturned ==
  pc = "idle" =>
    /\ Cardinality(RejectionMessages) = 6
    /\ \A msg \in RejectionMessages :
         \E x \in TimeInputs : validateTimeString(x.timeStr) = Invalid(msg)

\* C13: a seconds field of 60 or more is rejected with 'Seconds must be
\* 0-59'; in a three-field input a minutes field of 60 or more is rejected
\* with 'Minutes must be 0-59', also when the seconds field is out of range
C13_RangeErrors ==
  (IsValidateCall /\ IsDigitFieldsInput) =>
    LET f == call.fields
    IN  /\ (Len(f) = 2 /\ FieldValue(f[2]) >= 60) =>
             ret = Invalid("Seconds must be 0-59")
        /\ (Len(f) = 3 /\ FieldValue(f[2]) >= 60) =>
             ret = Invalid("Minutes must be 0-59")
        /\ (Len(f) = 3 /\ FieldValue(f[2]) < 60 /\ FieldValue(f[3]) >= 60) =>
             ret = Invalid("Seconds must be 0-59")

\* "5:60:75" has both fields out of range and gets the minutes message
C13_Witness ==
  /\ IsValidateCall
  /\ call.decoration = "plain"
  /\ call.fields = <<<<"5">>, <<"6", "0">>, <<"7", "5">>>>
  /\ ret = Invalid("Minutes must be 0-59")

\* C14: an accepted input has more than 0 seconds; an input whose fields are
\* all zero is rejected
C14_AcceptedIsPositive ==
  IsValidateCall =>
    /\ ret.valid => ret.seconds > 0
    /\ (/\ call.decoration \in {"plain", "padded"}
        /\ Len(call.fields) \in {2, 3}
        /\ \A i \in 1..Len(call.fields) : FieldValue(call.fields[i]) = 0) =>
         ret = Invalid("Time must be greater than 0")

\* "0:00:00" is rejected
C14_Witness ==
  /\ IsValidateCall
  /\ call.decoration = "plain"
  /\ call.fields = <<<<"0">>, <<"0", "0">>, <<"0", "0">>>>
  /\ ret = Invalid("Time must be greater than 0")

\* C15: an accepted string is, between its surrounding blanks, two or three
\* fields separated by ':' and every field is a number written in digits
C15_AcceptedIsNumericFields ==
  (IsValidateCall /\ ret.valid) =>
    LET parts == SplitColon(Trim(call.timeStr.chars), 1, <<>>, <<>>)
    IN  /\ MatchesDigitsAndColons(Trim(call.timeStr.chars))
        /\ Len(parts) \in {2, 3}
        /\ \A i \in 1..Len(parts) :
             /\ parts[i] # <<>>
             /\ \A j \in 1..Len(parts[i]) : parts[i][j] \in DigitChars

\* C16: timeToSeconds returns 0 exactly for the inputs validateTimeString
\* rejects, and the seconds of validateTimeString for the others
C16_ZeroIffInvalid ==
  IsTimeToSecondsCall =>
    LET v == validateTimeString(call.timeStr)
    IN  /\ (ret = 0) <=> ~v.valid
        /\ v.valid => ret = v.seconds

\* "0:00" is rejected and converts to 0
C16_Witness ==
  /\ IsTimeToSecondsCall
  /\ call.timeStr = [type |-> "string", chars |-> <<"0", ":", "0", "0">>]
  /\ ~validateTimeString(call.timeStr).valid
  /\ ret = 0

\* minutes written without a leading zero
IsCanonicalMinutes(field) ==
  field # <<>> /\ (Len(field) = 1 \/ field[1] # "0")

\* seconds written as two digits, below 60
IsTwoDigitSeconds(field) ==
  Len(field) = 2 /\ FieldValue(field) < 60

IsFieldOf(field, v, padded) ==
  /\ field # <<>>
  /\ \A j \in 1..Len(field) : field[j] \in DigitChars
  /\ ToNumber(field).val = v
  /\ IF padded THEN Len(field) = 2 ELSE (Len(field) = 1 \/ field[1] # "0")

\* C18: secondsToTime writes H:MM:SS exactly when the duration is 3600 s or
\* more and M:SS below, with H = floor(s / 3600), minutes = floor((s mod
\* 3600) / 60) and SS = s mod 60
C18_HourForm ==
  (IsSecondsToTimeCall /\ call.totalSeconds.n = 0) =>
    LET s == call.totalSeconds.w
        parts == SplitColon(ret, 1, <<>>, <<>>)
    IN  /\ s >= 3600 =>
             /\ Len(parts) = 3
             /\ IsFieldOf(parts[1], s \div 3600, FALSE)
             /\ IsFieldOf(parts[2], (s % 3600) \div 60, TRUE)
             /\ IsFieldOf(parts[3], s % 60, TRUE)
        /\ s < 3600 =>
             /\ Len(parts) = 2
             /\ IsFieldOf(parts[1], s \div 60, FALSE)
             /\ IsFieldOf(parts[2], s % 60, TRUE)

\* 3600 seconds are written "1:00:00"
C18_Witness ==
  /\ IsSecondsToTimeCall
  /\ call.totalSeconds = NumInt(3600)
  /\ ret = <<"1", ":", "0", "0", ":", "0", "0">>

(***************************************************************************)
(* Claims about the Riegel prediction and the fade curve.                  *)
(***************************************************************************)

\* pace x of race rx is below pace y of race ry; a pace of race r is a whole
\* number of 1/(100 * distance) sec/mile, so its fraction limb is a multiple
\* of 10 * distance
PaceLess(x, rx, y, ry) ==
  LET dx == RACE_DISTANCES[rx]
      dy == RACE_DISTANCES[ry]
  IN  \/ x.w < y.w
      \/ /\ x.w = y.w
         /\ (x.n \div (10 * dx)) * dy < (y.n \div (10 * dy)) * dx

\* C19: for a fixed recent race and time the sustainable pace of a longer
\* goal race is strictly slower than that of a shorter one, and the time
\* predicted for a longer target distance exceeds the known time scaled by
\* the ratio of the distances
C19_SlowerForLongerGoal ==
  /\ IsSustainableCall =>
       \A longer \in RaceKeys :
         RACE_DISTANCES[longer] > RACE_DISTANCES[call.goalRaceKey] =>
           PaceLess(ret, call.goalRaceKey,
                    calculateSustainablePace(call.recentRaceKey,
                                             call.recentTimeSeconds, longer),
                    longer)
  /\ (IsPredictCall /\ call.targetDistance > call.knownDistance) =>
       ret.num * call.knownDistance
         > ret.den * call.knownTimeSeconds * call.targetDistance

\* a 20:00 5K predicts a 10K above 40:00
C19_Witness ==
  /\ IsPredictCall
  /\ call.knownTimeSeconds = 1200
  /\ call.knownDistance = RACE_DISTANCES["5k"]
  /\ call.targetDistance = RACE_DISTANCES["10k"]
  /\ ret.num > 2400 * ret.den

\* C20: for a deviation d > 0 the fade is positive at every fraction above
\* 0.5, is never smaller at a larger fraction, and is strictly larger at a
\* larger fraction above 0.5 while it is below the 30 sec/mile cap
C20_FadeGrowsWithFraction ==
  (IsFadeCall /\ call.pacingDeviation > 0) =>
    LET d  == call.pacingDeviation
        fn == call.raceFraction.num
        fd == call.raceFraction.den
    IN  /\ 2 * fn > fd => ret.num > 0
        /\ \A later \in (fn + 1)..MaxFracNum :
             LET fade == calculateFadeAdjustment(d, later, fd)
             IN  /\ fade.num * ret.den >= ret.num * fade.den
                 /\ (/\ 2 * later > fd
                     /\ ret.num < FADE_MODEL.MAX_FADE_RATE * ret.den) =>
                      fade.num * ret.den > ret.num * fade.den

\* d = 15 at f = 0.6 gives a positive fade below the one at f = 0.8
C20_Witness ==
  /\ IsFadeCall
  /\ call.pacingDeviation = 15
  /\ 5 * call.raceFraction.num = 3 * call.raceFraction.den
  /\ ret.num > 0
  /\ LET fade == calculateFadeAdjustment(15, (4 * call.raceFraction.den) \div 5,
                                         call.raceFraction.den)
     IN  fade.num * ret.den > ret.num * fade.den

(***************************************************************************)
(* Claims about formatted durations, schedules and temperatures.           *)
(***************************************************************************)

\* C25: the seconds field printed by secondsToTime and by formatPace is two
\* digits between 00 and 59, for whole and for fractional durations
C25_SecondsFieldBelowSixty ==
  (IsSecondsToTimeCall \/ IsFormatPaceCall) =>
    LET parts == SplitColon(ret, 1, <<>>, <<>>)
        field == parts[Len(parts)]
    IN  /\ Len(field) = 2
        /\ ToNumber(field).val \in 0..59

\* C26: for a whole number of seconds s > 0 the text of secondsToTime(s)
\* parses back to s
C26_FormatThenParse ==
  (IsSecondsToTimeCall /\ call.totalSeconds.n = 0 /\ call.totalSeconds.w > 0) =>
    timeToSeconds([type |-> "string", chars |-> ret]) = call.totalSeconds.w

\* 3725 seconds are written "1:02:05", which parses back to 3725
C26_Witness ==
  /\ IsSecondsToTimeCall
  /\ call.totalSeconds = NumInt(3725)
  /\ ret = <<"1", ":", "0", "2", ":", "0", "5">>
  /\ timeToSeconds([type |-> "string", chars |-> ret]) = 3725

\* C27: the risk level of a projection is 'conservative' exactly when every
\* segment has fadeAdjustment 0, and under any other level some segment has
\* a positive fadeAdjustment
C27_ConservativeIffNoFade ==
  IsProjectionCall =>
    /\ ret.fadeRisk.level = "conservative"
         <=> \A i \in DOMAIN ret.splits : ret.splits[i].fadeAdjustment = NumInt(0)
    /\ ret.fadeRisk.level # "conservative"
         => \E i \in DOMAIN ret.splits :
              NumLess(NumInt(0), ret.splits[i].fadeAdjustment)

\* a 5K started 5 sec/mile fast is low risk and fades in some segment
C27_Witness ==
  /\ IsProjectionCall
  /\ call.inputs.goalRace = "5k"
  /\ call.inputs.pacingAdjustment = 0 - 5
  /\ ret.fadeRisk.level = "low"
  /\ \E i \in DOMAIN ret.splits : NumLess(NumInt(0), ret.splits[i].fadeAdjustment)

\* the sustainable pace the schedule was generated from
ScheduleSustainablePace ==
  IF IsSplitsCall THEN call.sustainablePace
  ELSE calculateSustainablePace(call.inputs.recentRace,
                                call.inputs.recentTimeSeconds,
                                call.inputs.goalRace)

\* C28: in every schedule each segment's fadeAdjustment is between 0 and 30
\* sec/mile and not below the previous segment's, and each segment's pace
\* minus its fadeAdjustment is sustainablePace + pacingAdjustment
C28_FadeWithinCapAndGrowing ==
  HasSchedule =>
    LET den       == TimeDen(ScheduleRace)
        startPace == NumAdd(ScheduleSustainablePace, NumInt(ScheduleAdjustment), den)
    IN  \A i \in DOMAIN Schedule :
          /\ NumLeq(NumInt(0), Schedule[i].fadeAdjustment)
          /\ NumLeq(Schedule[i].fadeAdjustment, NumInt(FADE_MODEL.MAX_FADE_RATE))
          /\ i > 1 => NumLeq(Schedule[i - 1].fadeAdjustment,
                             Schedule[i].fadeAdjustment)
          /\ NumSub(Schedule[i].pace, Schedule[i].fadeAdjustment, den) = startPace

\* a schedule whose fade grows from a positive value up to the cap
C28_Witness ==
  /\ HasSchedule
  /\ \E i \in DOMAIN Schedule : \E j \in DOMAIN Schedule :
       /\ i < j
       /\ NumLess(NumInt(0), Schedule[i].fadeAdjustment)
       /\ NumLess(Schedule[i].fadeAdjustment, Schedule[j].fadeAdjustment)
       /\ Schedule[j].fadeAdjustment = NumInt(FADE_MODEL.MAX_FADE_RATE)

RECURSIVE NumTimes(_, _, _)
\* k * x for a whole k >= 0, by doubling
NumTimes(x, k, den) ==
  IF k = 0 THEN NumInt(0)
  ELSE LET half == NumTimes(x, k \div 2, den)
           twice == NumAdd(half, half, den)
       IN  IF k % 2 = 0 THEN twice ELSE NumAdd(twice, x, den)

\* C29: for a pacing adjustment a >= 0 no segment fades, every pace is
\* sustainablePace + a, the projected finish is that pace times the goal
\* distance, which at a = 0 is the Riegel prediction and for a > 0 is later
C29_NoFadeForSlowStart ==
  (IsProjectionCall /\ call.inputs.pacingAdjustment >= 0) =>
    LET a         == call.inputs.pacingAdjustment
        den       == TimeDen(call.inputs.goalRace)
        distance  == RACE_DISTANCES[call.inputs.goalRace]
        startPace == NumAdd(ScheduleSustainablePace, NumInt(a), den)
        predicted == predictRaceTime(call.inputs.recentTimeSeconds,
                                     RACE_DISTANCES[call.inputs.recentRace],
                                     distance)
        riegel    == NumFromRat(predicted.num, predicted.den, den)
    IN  /\ \A i \in DOMAIN ret.splits :
             /\ ret.splits[i].fadeAdjustment = NumInt(0)
             /\ ret.splits[i].pace = startPace
        \* finish = startPace * distance / 10, the distance being in tenths
        /\ NumTimes(ret.projectedFinishTime, 10, den)
             = NumTimes(startPace, distance, den)
        /\ a = 0 => ret.projectedFinishTime = riegel
        /\ a > 0 => NumLess(riegel, ret.projectedFinishTime)

\* a start 10 sec/mile slow finishes later than the Riegel prediction
C29_Witness ==
  /\ IsProjectionCall
  /\ call.inputs.pacingAdjustment = 10
  /\ \A i \in DOMAIN ret.splits : ret.splits[i].fadeAdjustment = NumInt(0)
  /\ LET predicted == predictRaceTime(call.inputs.recentTimeSeconds,
                                      RACE_DISTANCES[call.inputs.recentRace],
                                      RACE_DISTANCES[call.inputs.goalRace])
     IN  NumLess(NumFromRat(predicted.num, predicted.den,
                            TimeDen(call.inputs.goalRace)),
                 ret.projectedFinishTime)

\* C30: a whole Celsius value of the slider, converted to Fahrenheit and
\* back, is the same value
C30_CelsiusRoundTrip ==
  IsCelsiusToFahrenheitCall => fahrenheitToCelsius(ret) = call.tempC

\* 8 degrees Celsius are stored as 46 degrees Fahrenheit and shown as 8 again
C30_Witness ==
  /\ IsCelsiusToFahrenheitCall
  /\ call.tempC = 8
  /\ ret = 46
  /\ fahrenheitToCelsius(ret) = 8

(***************************************************************************)
(* Claims about the App.                                                   *)
(***************************************************************************)

\* the text of a time field of the inputs, as handed to the time codec
TimeText(field) == [type |-> "string", chars |-> appInputs[field]]

\* C21: the App holds a projection exactly when the goal-time and the
\* recent-time text both pass validateTimeString; calculateProjection is
\* never called with a goal or recent time of 0 seconds; without a
\* projection the results panel shows its placeholder
C21_ProjectionIffBothTimesValid ==
  IsApp =>
    LET projections == Projections
    IN  /\ ~projections.value.isNull
             <=> /\ validateTimeString(TimeText("goalTime")).valid
                 /\ validateTimeString(TimeText("recentTime")).valid
        /\ \A i \in DOMAIN projections.calls :
             /\ projections.calls[i].goalTimeSeconds > 0
             /\ projections.calls[i].recentTimeSeconds > 0
        /\ projections.value.isNull
             <=> ResultsDisplay(Shown(projections))
                   = "Enter valid race times to see projections."

\* the recent time was changed to "0:00": no projection, no call, placeholder
C21_Witness ==
  /\ pc = "edited"
  /\ validateTimeString(TimeText("goalTime")).valid
  /\ appInputs["recentTime"] = Str("0:00")
  /\ Projections.value.isNull
  /\ Projections.calls = <<>>
  /\ ResultsDisplay(Shown(Projections)) = "Enter valid race times to see projections."

\* the parameters of calculateProjection for the current inputs and a given
\* pacing adjustment, read off the validated texts
ScenarioParams(pacingAdjustment) ==
  [goalRace          |-> RaceKeyOf(appInputs["goalRace"]),
   goalTimeSeconds   |-> validateTimeString(TimeText("goalTime")).seconds,
   recentRace        |-> RaceKeyOf(appInputs["recentRace"]),
   recentTimeSeconds |-> validateTimeString(TimeText("recentTime")).seconds,
   pacingAdjustment  |-> pacingAdjustment]

\* C22: in comparison mode the aggressive and the conservative result are
\* the projections for the current adjustment minus and plus 10 sec/mile
\* with the same goal and recent inputs; the main result is the same with
\* comparison mode on and off; with it off there are no comparison results
C22_ComparisonScenarios ==
  (/\ IsApp
   /\ validateTimeString(TimeText("goalTime")).valid
   /\ validateTimeString(TimeText("recentTime")).valid) =>
    LET a       == appInputs["pacingAdjustment"]
        projections == Projections
        value   == projections.value
        toggled == handleChange(appInputs, "compareMode", ~appInputs["compareMode"])
    IN  /\ ~value.isNull
        /\ value.main = calculateProjection(ScenarioParams(a))
        /\ appInputs["compareMode"] =>
             /\ ~value.comparisons.isNull
             /\ projections.calls
                  = <<ScenarioParams(a), ScenarioParams(a - 10), ScenarioParams(a + 10)>>
             /\ value.comparisons.aggressive = calculateProjection(ScenarioParams(a - 10))
             /\ value.comparisons.conservative = calculateProjection(ScenarioParams(a + 10))
        /\ ~appInputs["compareMode"] =>
             /\ value.comparisons.isNull
             /\ projections.calls = <<ScenarioParams(a)>>
             /\ value.main = useMemoProjections(toggled).value.main

\* comparison mode on at the default adjustment 0: the aggressive scenario
\* starts 10 sec/mile fast (moderate risk), the conservative one 10 slow
C22_Witness ==
  /\ pc = "edited"
  /\ appInputs["compareMode"]
  /\ appInputs["pacingAdjustment"] = 0
  /\ ~Projections.value.isNull
  /\ Projections.value.main.fadeRisk.level = "conservative"
  /\ Projections.value.comparisons.aggressive.fadeRisk.level = "moderate"
  /\ Projections.value.comparisons.conservative.fadeRisk.level = "conservative"
  /\ NumLess(Projections.value.comparisons.aggressive.startPace,
             Projections.value.main.startPace)

\* the inputs with the unit preference at its default and no weather inputs
WithoutDisplayInputs(values) ==
  [key \in DOMAIN DEFAULT_INPUTS |->
     IF key = "unitPreference" THEN DEFAULT_INPUTS[key] ELSE values[key]]

=============================================================================
